---- MODULE Spec2Model ----
(***************************************************************************)
(* A model of url-track-cleaner: the redirect policy (src/src/policy.rs),  *)
(* the reserve rules (src/src/rules.rs) and UrlTrackCleaner::do_clean with *)
(* its redirect gate and query rewrite (src/src/cleaner.rs).               *)
(*                                                                         *)
(* Text is modelled as a sequence of characters, each character a string;  *)
(* a percent-escape of the query ("%26", "%3D", "%20") is one character of *)
(* the raw text that decodes to the character it escapes.  The URL parser, *)
(* the regex engine, the DNS resolver and the HTTP client are libraries:   *)
(* what they answer is drawn from small sets.                              *)
(***************************************************************************)
EXTENDS Integers, Sequences, FiniteSets, TLC

\* ------------------------------------------------------------------ bounds

\* Longest raw query text of a URL handed to the rewrite step alone.
MaxQueryLen == 3
\* Longest rule list handed to the rewrite step alone.
MaxRules == 2
\* Longest raw query text of a URL in a full do_clean call.
MaxProbeQueryLen == 1
\* Longest rule list of a cleaner in a full do_clean call.
MaxProbeRules == 1
\* Most addresses a DNS lookup answers with.
MaxAddrs == 1

\* ------------------------------------------------------------------- text

RECURSIVE SeqsUpTo(_, _)
SeqsUpTo(S, n) ==
    IF n = 0 THEN {<<>>}
    ELSE LET shorter == SeqsUpTo(S, n - 1)
         IN  shorter \cup {Append(s, c) : s \in shorter, c \in S}

\* The characters a raw query text is made of.
QueryChars == {"t", "x", "&", "=", "%26", "+"}

\* ends_with as an exact comparison.
ends_with_exact(s, suffix) == s = suffix

\* str::ends_with
ends_with(s, suffix) ==
    /\ Len(suffix) <= Len(s)
    /\ \A i \in 1..Len(suffix) : s[Len(s) - Len(suffix) + i] = suffix[i]

\* ------------------------------------------------------------------- Url

NoHost == [kind |-> "none", name |-> <<>>]
DomainAB == [kind |-> "domain", name |-> <<"a", ".", "b">>]
DomainB == [kind |-> "domain", name |-> <<"b">>]
IpHost == [kind |-> "ip", name |-> <<"1">>]

NoQuery == [present |-> FALSE, text |-> <<>>]
SomeQuery(text) == [present |-> TRUE, text |-> text]

RootPath == <<"/">>

\* Url::host_str: None for a URL without a host, else the host's text.
host_str(url) ==
    IF url.host.kind = "none"
    THEN [present |-> FALSE, name |-> <<>>]
    ELSE [present |-> TRUE, name |-> url.host.name]

\* Url::domain: the host's text when the host is a domain name, else None.
domain(url) ==
    IF url.host.kind = "domain"
    THEN [present |-> TRUE, name |-> url.host.name]
    ELSE [present |-> FALSE, name |-> <<>>]

\* Url::to_string: the full serialized text.
to_string(url) ==
    (IF url.host.kind = "none" THEN <<"mailto:">>
     ELSE <<"https://">> \o url.host.name)
    \o url.path
    \o (IF url.query.present THEN <<"?">> \o url.query.text ELSE <<>>)

\* percent_encoding of one character with the query encode set: the space is
\* escaped; '&', '=', '+' and '%' are not in the set and pass unchanged.
utf8_percent_encode(c) == IF c = " " THEN "%20" ELSE c

\* Url::set_query: Some(text) is percent-encoded and becomes the query (an
\* empty text leaves a present, empty query); None removes the query.
set_query(url, q) ==
    IF q.present
    THEN [url EXCEPT !.query =
             SomeQuery([i \in 1..Len(q.text) |-> utf8_percent_encode(q.text[i])])]
    ELSE [url EXCEPT !.query = NoQuery]

\* form_urlencoded's decode of one character of a name or a value: '+' is a
\* space, a percent-escape is the character it escapes.
decode(c) ==
    CASE c = "+" -> " "
      [] c = "%20" -> " "
      [] c = "%26" -> "&"
      [] c = "%3D" -> "="
      [] OTHER -> c

\* The segments of text between separators sep (str::split).
RECURSIVE split(_, _)
split(text, sep) ==
    IF \A i \in 1..Len(text) : text[i] # sep THEN <<text>>
    ELSE LET at == CHOOSE i \in 1..Len(text) :
                       /\ text[i] = sep
                       /\ \A j \in 1..(i - 1) : text[j] # sep
         IN  <<SubSeq(text, 1, at - 1)>> \o split(SubSeq(text, at + 1, Len(text)), sep)

\* One segment of a query as a decoded (name, value) pair: split at the first '='.
parse_pair(segment) ==
    LET eqs == {i \in 1..Len(segment) : segment[i] = "="}
        at == IF eqs = {} THEN Len(segment) + 1
              ELSE CHOOSE i \in eqs : \A j \in eqs : i <= j
        name == SubSeq(segment, 1, at - 1)
        value == SubSeq(segment, at + 1, Len(segment))
    IN  [k |-> [i \in 1..Len(name) |-> decode(name[i])],
         v |-> [i \in 1..Len(value) |-> decode(value[i])]]

\* form_urlencoded::parse: segments between '&', empty segments skipped.
form_urlencoded_parse(text) ==
    LET segments == SelectSeq(split(text, "&"), LAMBDA s : s # <<>>)
    IN  [i \in 1..Len(segments) |-> parse_pair(segments[i])]

\* Url::query_pairs: the pairs of the query, none when there is no query.
query_pairs(url) ==
    form_urlencoded_parse(IF url.query.present THEN url.query.text ELSE <<>>)

\* ------------------------------------------------------------ ReserveRule

\* regex::Regex: a compiled pattern.  The patterns of the model are literal
\* texts, anchored at the start of the haystack ("^lit") or not ("lit").
Pattern(anchored, lit) == [anchored |-> anchored, lit |-> lit]

\* regex::Regex::is_match: the pattern matches somewhere in the haystack.
is_match(pattern, haystack) ==
    LET n == Len(pattern.lit)
        starts == IF pattern.anchored THEN {1} ELSE 1..(Len(haystack) + 1)
    IN  \E i \in starts :
            /\ i + n - 1 <= Len(haystack)
            /\ SubSeq(haystack, i, i + n - 1) = pattern.lit

\* ReserveRule::new
ReserveRule(url_match, reserve_queries) ==
    [url_match |-> url_match, reserve_queries |-> reserve_queries]

\* Vec<String>::contains
contains(vec, key) == \E i \in 1..Len(vec) : vec[i] = key

\* The rules a cleaner is built from: ".*" keeping t, ".*" keeping nothing,
\* "^https://a.b/" keeping t and x, "x=" (a pattern on the query text)
\* keeping t, and "^https://b/" keeping x.
KeyT == <<"t">>
KeyX == <<"x">>
AnyKeepT == ReserveRule(Pattern(FALSE, <<>>), <<KeyT>>)
AnyKeepNone == ReserveRule(Pattern(FALSE, <<>>), <<>>)
SiteABKeepTX == ReserveRule(Pattern(TRUE, <<"https://", "a", ".", "b", "/">>), <<KeyT, KeyX>>)
QueryXKeepT == ReserveRule(Pattern(FALSE, <<"x", "=">>), <<KeyT>>)
SiteBKeepX == ReserveRule(Pattern(TRUE, <<"https://", "b", "/">>), <<KeyX>>)
Rules == {AnyKeepT, AnyKeepNone, SiteABKeepTX, QueryXKeepT, SiteBKeepX}

\* --------------------------------------------------------- RedirectPolicy

PolicyNone == [kind |-> "None", domains |-> <<>>]
PolicyAll == [kind |-> "All", domains |-> <<>>]
PolicyDomains(domains) == [kind |-> "Domains", domains |-> domains]

\* RedirectPolicy::default
DefaultPolicy == PolicyNone

Policies ==
    {PolicyNone, PolicyAll, PolicyDomains(<< <<"b">> >>),
     PolicyDomains(<< <<"x">>, <<".", "b">> >>), PolicyDomains(<< <<>> >>)}

\* test_url with the None arm answering like the default arm.
test_url_none_allows(policy, url) ==
    CASE policy.kind = "Domains" ->
            LET d == IF domain(url).present THEN domain(url).name ELSE <<>>
            IN  \E i \in 1..Len(policy.domains) : ends_with(d, policy.domains[i])
      [] OTHER -> TRUE

\* RedirectPolicy::test_url
test_url(policy, url) ==
    CASE policy.kind = "None" -> FALSE
      [] policy.kind = "Domains" ->
            LET d == IF domain(url).present THEN domain(url).name ELSE <<>>
            IN  \E i \in 1..Len(policy.domains) : ends_with(d, policy.domains[i])
      [] OTHER -> TRUE

\* ----------------------------------------------------------- query rewrite

\* Vec::retain of the pairs whose name the rule reserves.
retain(pairs, rule) ==
    SelectSeq(pairs, LAMBDA p : contains(rule.reserve_queries, p.k))

\* The retained pairs written "k=v" and joined with '&'.
RECURSIVE join_pairs(_)
join_pairs(pairs) ==
    IF pairs = <<>> THEN <<>>
    ELSE LET first == pairs[1].k \o <<"=">> \o pairs[1].v
         IN  IF Len(pairs) = 1 THEN first
             ELSE first \o <<"&">> \o join_pairs(Tail(pairs))

\* The body of the loop with an empty retained set removing the query.
apply_rule_drops_empty(rule, url) ==
    LET kept == retain(query_pairs(url), rule)
    IN  set_query(url, IF kept = <<>> THEN NoQuery ELSE SomeQuery(join_pairs(kept)))

\* The body of the loop over the reserve rules for the rule that matches.
apply_rule(rule, url) == set_query(url, SomeQuery(join_pairs(retain(query_pairs(url), rule))))

\* The loop over the reserve rules from index i on: the first rule whose
\* pattern matches the serialized URL is applied, and the loop returns.
RECURSIVE scan_rules(_, _, _)
scan_rules(rules, i, url) ==
    IF i > Len(rules) THEN set_query(url, NoQuery)
    ELSE IF is_match(rules[i].url_match, to_string(url)) THEN apply_rule(rules[i], url)
    ELSE scan_rules(rules, i + 1, url)

\* The loop without its early return: the last matching rule wins.
do_clean_last_match(rules, url) ==
    LET matching == {i \in 1..Len(rules) : is_match(rules[i].url_match, to_string(url))}
    IN  IF matching = {} THEN set_query(url, NoQuery)
        ELSE apply_rule(rules[CHOOSE i \in matching : \A j \in matching : j <= i], url)

\* UrlTrackCleaner::do_clean_without_http_check
do_clean_without_http_check(rules, url) == scan_rules(rules, 1, url)

\* ------------------------------------------------------------------ state

VARIABLES
    follow_redirect,  \* UrlTrackCleaner.follow_redirect
    reserve_rules,    \* UrlTrackCleaner.reserve_rules
    input,            \* the argument of do_clean: a text that parses as a URL, or not
    url,              \* do_clean's local `url`, the working URL
    pc,               \* where the call stands
    dns,              \* what lookup_host answered
    rsp,              \* what the HTTP client answered
    result,           \* what the call returned
    lookups,          \* DNS lookups issued
    gets,             \* HTTP GETs issued
    requested,        \* the URLs the GETs were sent to, in order
    rewrites,         \* runs of do_clean_without_http_check
    once              \* the URL a first rewrite returned, before a second one

vars == <<follow_redirect, reserve_rules, input, url, pc, dns, rsp, result,
          lookups, gets, requested, rewrites, once>>

Url(host, query) == [host |-> host, path |-> RootPath, query |-> query]

\* A URL value that stands for "no URL" in a record that holds none.
NoUrl == Url(NoHost, NoQuery)

Queries(chars, n) == {NoQuery} \cup {SomeQuery(t) : t \in SeqsUpTo(chars, n)}

\* The URLs handed to the rewrite step alone.
RewriteUrls == {Url(DomainAB, q) : q \in Queries(QueryChars, MaxQueryLen)}

\* The URLs of a full call: the input, and the Location of a redirection.
ProbeUrls ==
    {Url(h, q) : h \in {NoHost, IpHost, DomainAB, DomainB},
                 q \in Queries({"t", "x"}, MaxProbeQueryLen)}

\* IntoUrl::into_url: the input parses as a URL, or does not.
Inputs == {[valid |-> TRUE, url |-> u] : u \in ProbeUrls} \cup {[valid |-> FALSE, url |-> NoUrl]}

RuleLists(n) == SeqsUpTo(Rules, n)

Pending == [state |-> "pending", url |-> NoUrl, err |-> "none"]
Ok(u) == [state |-> "ok", url |-> u, err |-> "none"]
Err(e) == [state |-> "err", url |-> NoUrl, err |-> e]

\* lookup_host: an error, or the addresses of the host.
NoLookup == [state |-> "unasked", count |-> 0]
LookupResults == {[state |-> "err", count |-> 0]} \cup {[state |-> "ok", count |-> n] : n \in 0..MaxAddrs}

\* The Location header of a response: absent, not a URL, or a URL.
Locations ==
    {[kind |-> "absent", url |-> NoUrl], [kind |-> "invalid", url |-> NoUrl]}
    \cup {[kind |-> "url", url |-> u] : u \in ProbeUrls}

Statuses == {200, 301, 404}

\* StatusCode::is_redirection
is_redirection(status) == 300 <= status /\ status <= 399

\* RequestBuilder::send: a transport error, or a response with its status,
\* its Location header and the URL it answers for.
NoResponse == [state |-> "none", status |-> 0, location |-> [kind |-> "absent", url |-> NoUrl], url |-> NoUrl]
TransportError == [NoResponse EXCEPT !.state = "error"]
Response(status, location, for) == [state |-> "response", status |-> status, location |-> location, url |-> for]


Idle ==
    /\ dns = NoLookup
    /\ rsp = NoResponse
    /\ result = Pending
    /\ lookups = 0
    /\ gets = 0
    /\ requested = <<>>
    /\ rewrites = 0
    /\ once = NoUrl

\* A cleaner built with any policy and any rule list, and a call of do_clean.
Init ==
    /\ follow_redirect \in Policies
    /\ reserve_rules \in RuleLists(MaxProbeRules)
    /\ input \in Inputs
    /\ url = NoUrl
    /\ pc = "start"
    /\ Idle

\* ----------------------------------------------------------------- do_clean

\* skip_redirect up to its await: the policy refuses the URL, or the URL has
\* no host, and the redirection check is skipped without a lookup.
skip_without_lookup(policy, u) == ~test_url(policy, u) \/ ~host_str(u).present

\* skip_redirect after its await with the count compared to 0, not 1.
skip_after_lookup_off_by_one(answer) == IF answer.state = "ok" THEN answer.count < 0 ELSE TRUE

\* skip_redirect after its await: a failed lookup, or one without addresses,
\* skips the redirection check.
skip_after_lookup(answer) == IF answer.state = "ok" THEN answer.count < 1 ELSE TRUE

\* The last line of do_clean: the working URL is rewritten and returned.
Finish(u) ==
    /\ url' = u
    /\ result' = Ok(do_clean_without_http_check(reserve_rules, u))
    /\ rewrites' = rewrites + 1
    /\ pc' = "done"

\* do_clean: the input is not a URL, and into_url's error is returned.
BeginInvalid ==
    /\ pc = "start"
    /\ ~input.valid
    /\ result' = Err("InvalidInputUrl")
    /\ pc' = "failed"
    /\ UNCHANGED <<follow_redirect, reserve_rules, input, url, dns, rsp,
                   lookups, gets, requested, rewrites, once>>

\* do_clean: skip_redirect answers true without a lookup; no request is sent.
BeginSkip ==
    /\ pc = "start"
    /\ input.valid
    /\ skip_without_lookup(follow_redirect, input.url)
    /\ Finish(input.url)
    /\ UNCHANGED <<follow_redirect, reserve_rules, input, dns, rsp,
                   lookups, gets, requested, once>>

\* do_clean: skip_redirect calls lookup_host and awaits its answer.
BeginLookup ==
    /\ pc = "start"
    /\ input.valid
    /\ ~skip_without_lookup(follow_redirect, input.url)
    /\ url' = input.url
    /\ lookups' = lookups + 1
    /\ pc' = "lookup"
    /\ UNCHANGED <<follow_redirect, reserve_rules, input, dns, rsp, result,
                   gets, requested, rewrites, once>>

\* The lookup answers and skip_redirect returns true: no request is sent.
LookupSkip ==
    /\ pc = "lookup"
    /\ \E answer \in LookupResults :
        /\ skip_after_lookup(answer)
        /\ dns' = answer
    /\ Finish(url)
    /\ UNCHANGED <<follow_redirect, reserve_rules, input, rsp,
                   lookups, gets, requested, once>>

\* The lookup answers and skip_redirect returns false: the GET is sent.
LookupSend ==
    /\ pc = "lookup"
    /\ \E answer \in LookupResults :
        /\ ~skip_after_lookup(answer)
        /\ dns' = answer
    /\ gets' = gets + 1
    /\ requested' = Append(requested, url)
    /\ pc' = "send"
    /\ UNCHANGED <<follow_redirect, reserve_rules, input, url, rsp, result,
                   lookups, rewrites, once>>

\* send fails and the call goes on with the URL it has.
SendError_FallsBack ==
    /\ pc = "send"
    /\ rsp' = TransportError
    /\ Finish(url)
    /\ UNCHANGED <<follow_redirect, reserve_rules, input, dns,
                   lookups, gets, requested, once>>

\* send fails: its error is returned by the `?`.
SendError ==
    /\ pc = "send"
    /\ rsp' = TransportError
    /\ result' = Err("NetworkError")
    /\ pc' = "failed"
    /\ UNCHANGED <<follow_redirect, reserve_rules, input, url, dns,
                   lookups, gets, requested, rewrites, once>>

\* A redirection without a usable Location goes on with the URL it has.
RedirectError_FallsBack ==
    /\ pc = "send"
    /\ \E status \in Statuses, location \in Locations :
        /\ is_redirection(status)
        /\ location.kind # "url"
        /\ rsp' = Response(status, location, url)
    /\ Finish(url)
    /\ UNCHANGED <<follow_redirect, reserve_rules, input, dns,
                   lookups, gets, requested, once>>

\* A redirection without a usable Location: the error is returned by the `?`.
RedirectError ==
    /\ pc = "send"
    /\ \E status \in Statuses, location \in Locations :
        /\ is_redirection(status)
        /\ location.kind # "url"
        /\ rsp' = Response(status, location, url)
        /\ result' = Err(IF location.kind = "absent" THEN "MissingLocation"
                         ELSE "InvalidLocationUrl")
    /\ pc' = "failed"
    /\ UNCHANGED <<follow_redirect, reserve_rules, input, url, dns,
                   lookups, gets, requested, rewrites, once>>

\* A redirection whose Location is read and the requested URL kept.
Redirected_KeepsInput ==
    /\ pc = "send"
    /\ \E status \in Statuses, location \in Locations :
        /\ is_redirection(status)
        /\ location.kind = "url"
        /\ rsp' = Response(status, location, url)
    /\ Finish(url)
    /\ UNCHANGED <<follow_redirect, reserve_rules, input, dns,
                   lookups, gets, requested, once>>

\* A redirection with a Location that parses: it becomes the working URL.
Redirected ==
    /\ pc = "send"
    /\ \E status \in Statuses, location \in Locations :
        /\ is_redirection(status)
        /\ location.kind = "url"
        /\ rsp' = Response(status, location, url)
        /\ Finish(location.url)
    /\ UNCHANGED <<follow_redirect, reserve_rules, input, dns,
                   lookups, gets, requested, once>>

\* Any other response: the response's own URL becomes the working URL.
NotRedirected ==
    /\ pc = "send"
    /\ \E status \in Statuses, location \in Locations :
        /\ ~is_redirection(status)
        /\ rsp' = Response(status, location, url)
        /\ Finish(rsp'.url)
    /\ UNCHANGED <<follow_redirect, reserve_rules, input, dns,
                   lookups, gets, requested, once>>

Next ==
    \/ BeginInvalid
    \/ BeginSkip
    \/ BeginLookup
    \/ LookupSkip
    \/ LookupSend
    \/ SendError
    \/ RedirectError
    \/ Redirected
    \/ NotRedirected

Spec == Init /\ [][Next]_vars

\* ------------------------------------------------- the rewrite step alone

\* A cleaner built with the default policy and any rule list, and a URL.
InitRewrite ==
    /\ follow_redirect = DefaultPolicy
    /\ reserve_rules \in RuleLists(MaxRules)
    /\ url \in RewriteUrls
    /\ input = [valid |-> TRUE, url |-> url]
    /\ pc = "rewrite"
    /\ Idle

\* do_clean_without_http_check on the URL.
Rewrite ==
    /\ pc = "rewrite"
    /\ result' = Ok(do_clean_without_http_check(reserve_rules, url))
    /\ rewrites' = rewrites + 1
    /\ pc' = "rewritten"
    /\ UNCHANGED <<follow_redirect, reserve_rules, input, url, dns, rsp,
                   lookups, gets, requested, once>>

\* do_clean_without_http_check on the URL the first run returned.
RewriteAgain ==
    /\ pc = "rewritten"
    /\ once' = result.url
    /\ url' = result.url
    /\ result' = Ok(do_clean_without_http_check(reserve_rules, result.url))
    /\ rewrites' = rewrites + 1
    /\ pc' = "rewritten_twice"
    /\ UNCHANGED <<follow_redirect, reserve_rules, input, dns, rsp,
                   lookups, gets, requested>>

NextRewrite == Rewrite \/ RewriteAgain

SpecRewrite == InitRewrite /\ [][NextRewrite]_vars

\* ------------------------------------------------------------------ claims

\* The indexes of the rules whose pattern matches the serialized URL u.
Matching(rules, u) == {i \in 1..Len(rules) : is_match(rules[i].url_match, to_string(u))}

\* The lowest index of a matching rule.
FirstMatching(rules, u) == CHOOSE i \in Matching(rules, u) : \A j \in Matching(rules, u) : i <= j

\* The pairs of a sequence whose name is one of the keys.
Reserved(pairs, keys) == SelectSeq(pairs, LAMBDA p : \E i \in 1..Len(keys) : keys[i] = p.k)

\* C1: with the policy None a call issues no DNS lookup and no HTTP GET, and
\* once it has left its start it is done with the rewrite of the parsed input.
C1_NeverMeansNoNetwork ==
    (follow_redirect.kind = "None" /\ input.valid) =>
        /\ lookups = 0 /\ gets = 0
        /\ dns = NoLookup /\ rsp = NoResponse
        /\ pc # "start" =>
            /\ pc = "done"
            /\ result = Ok(do_clean_without_http_check(reserve_rules, input.url))

C1_Witness ==
    /\ follow_redirect.kind = "None"
    /\ pc = "done"
    /\ input.url.host.kind = "domain"
    /\ input.url.query.present
    /\ result.url # input.url

\* C2: under any policy, a URL without a host, a failed lookup or a lookup
\* without addresses means no GET is ever sent, and the call that has left
\* its start is done with the rewrite of the input URL.
C2_UnresolvableMeansNoGet ==
    (/\ input.valid
     /\ \/ ~host_str(input.url).present
        \/ dns.state = "err"
        \/ (dns.state = "ok" /\ dns.count = 0)) =>
        /\ gets = 0 /\ rsp = NoResponse
        /\ pc # "start" =>
            /\ pc = "done"
            /\ result = Ok(do_clean_without_http_check(reserve_rules, input.url))

C2_Witness ==
    /\ follow_redirect.kind = "Domains"
    /\ test_url(follow_redirect, input.url)
    /\ dns.state = "ok" /\ dns.count = 0
    /\ pc = "done"
    /\ result.state = "ok"

\* C3: when two or more rules match the URL, the rewrite returns what the
\* matching rule of lowest index alone would return, whatever rule follows it.
C3_FirstMatchWins ==
    (pc = "rewritten" /\ Cardinality(Matching(reserve_rules, url)) >= 2) =>
        LET first == reserve_rules[FirstMatching(reserve_rules, url)]
        IN  /\ result.url = do_clean_without_http_check(<<first>>, url)
            /\ \A later \in RuleLists(1) :
                  result.url = do_clean_without_http_check(
                      SubSeq(reserve_rules, 1, FirstMatching(reserve_rules, url)) \o later, url)

C3_Witness ==
    /\ pc = "rewritten"
    /\ Cardinality(Matching(reserve_rules, url)) >= 2
    /\ query_pairs(url) # <<>>
    /\ \E i \in Matching(reserve_rules, url) :
          result.url # do_clean_without_http_check(<<reserve_rules[i]>>, url)

\* C4: the rewrite of an already rewritten URL returns that URL.
C4_RewriteIdempotent == pc = "rewritten_twice" => result.url = once

\* C5: a matching rule that reserves none of the URL's keys leaves a present,
\* empty query; no matching rule leaves no query, and no '?' in the text.
C5_EmptyQueryOrNoQuery ==
    pc = "rewritten" =>
        IF Matching(reserve_rules, url) = {}
        THEN /\ ~result.url.query.present
             /\ \A i \in 1..Len(to_string(result.url)) : to_string(result.url)[i] # "?"
        ELSE LET first == reserve_rules[FirstMatching(reserve_rules, url)]
             IN  Reserved(query_pairs(url), first.reserve_queries) = <<>> =>
                     /\ result.url.query = SomeQuery(<<>>)
                     /\ to_string(result.url)[Len(to_string(result.url))] = "?"

C5_Witness ==
    /\ pc = "rewritten"
    /\ Matching(reserve_rules, url) # {}
    /\ query_pairs(url) # <<>>
    /\ reserve_rules[FirstMatching(reserve_rules, url)].reserve_queries # <<>>
    /\ result.url.query = SomeQuery(<<>>)

\* C6: when a rule matches, the pairs of the returned URL's query are the
\* pairs of the URL's query whose name the rule reserves, in order and with
\* duplicates, and the host and the path are unchanged.
C6_RetainedPairsExactly ==
    (pc = "rewritten" /\ Matching(reserve_rules, url) # {}) =>
        LET first == reserve_rules[FirstMatching(reserve_rules, url)]
        IN  /\ query_pairs(result.url) = Reserved(query_pairs(url), first.reserve_queries)
            /\ result.url.host = url.host
            /\ result.url.path = url.path

\* C7: a transport failure of the GET ends the call with an error: nothing
\* was rewritten, no URL is returned, one GET was sent and nothing follows.
C7_TransportErrorAborts ==
    rsp.state = "error" =>
        /\ pc = "failed"
        /\ result = Err("NetworkError")
        /\ rewrites = 0
        /\ gets = 1
        /\ ~ENABLED Next

C7_Witness ==
    /\ rsp.state = "error"
    /\ pc = "failed"
    /\ gets = 1

\* C8: a 3xx response without a Location header ends the call with the
\* MissingLocation error, and nothing was rewritten.
C8_MissingLocationFails ==
    (/\ rsp.state = "response"
     /\ is_redirection(rsp.status)
     /\ rsp.location.kind = "absent") =>
        /\ pc = "failed"
        /\ result = Err("MissingLocation")
        /\ rewrites = 0

C8_Witness ==
    /\ follow_redirect.kind = "All"
    /\ rsp.state = "response"
    /\ rsp.status = 301
    /\ rsp.location.kind = "absent"
    /\ result.state = "err"

\* C9: no call sends a second GET; a call whose policy allows the URL and
\* whose host resolves sends one GET, to the input URL; a 3xx response with a
\* Location that parses makes that Location the working URL, unrequested,
\* and the call returns its rewrite.
C9_OneHop ==
    /\ gets <= 1
    /\ (/\ input.valid
        /\ test_url(follow_redirect, input.url)
        /\ dns.state = "ok" /\ dns.count >= 1) =>
            /\ gets = 1
            /\ requested = <<input.url>>
            /\ (/\ rsp.state = "response"
                /\ is_redirection(rsp.status)
                /\ rsp.location.kind = "url") =>
                    /\ pc = "done"
                    /\ url = rsp.location.url
                    /\ result = Ok(do_clean_without_http_check(reserve_rules, rsp.location.url))
                    /\ ~ENABLED Next

C9_Witness ==
    /\ pc = "done"
    /\ reserve_rules = <<>>
    /\ rsp.state = "response" /\ rsp.status = 301
    /\ rsp.location.kind = "url"
    /\ rsp.location.url.host # input.url.host
    /\ rsp.location.url.query.present
    /\ rsp.location.url.query # input.url.query
    /\ result.url = Url(rsp.location.url.host, NoQuery)
    /\ requested = <<input.url>>

\* What the policy answers for a domain, stated on the domain's text: None
\* never, All always, Domains when some listed text is a tail of the domain.
PolicyAllows(policy, d) ==
    CASE policy.kind = "None" -> FALSE
      [] policy.kind = "All" -> TRUE
      [] policy.kind = "Domains" ->
            \E i \in 1..Len(policy.domains) : \E k \in 0..Len(d) :
                SubSeq(d, k + 1, Len(d)) = policy.domains[i]

\* C10: test_url is false under None, true under All, and under Domains true
\* exactly when the URL's domain (empty when it has none) ends with a listed
\* suffix; the gate of a call acts on that answer.
C10_PolicyTest ==
    input.valid =>
        LET d == IF input.url.host.kind = "domain" THEN input.url.host.name ELSE <<>>
            allowed == PolicyAllows(follow_redirect, d)
        IN  /\ test_url(follow_redirect, input.url) = allowed
            /\ pc # "start" => (lookups = 1 <=> (allowed /\ input.url.host.kind # "none"))

C10_Witness ==
    /\ follow_redirect = PolicyDomains(<< <<"b">> >>)
    /\ input.url.host = DomainAB
    /\ lookups = 1

====
